---- MODULE Spec2Model ----
\* A model of impersonate/admin.py: the two admin list filters over the
\* ImpersonationLog table, the friendly-name rule and the two display columns.
EXTENDS Integers, Sequences, FiniteSets, TLC

\* ---------------------------------------------------------------- bounds
\* Number of user rows in the auth user table.
MaxUsers == 2
\* Number of ImpersonationLog rows the middleware may create.
MaxLogs == 2

\* ------------------------------------------------------------- constants
\* The default of getattr(settings, 'IMPERSONATE_MAX_FILTER_SIZE', 100).
DEFAULT_MAX_FILTER_SIZE == 100

VARIABLES
    users,               \* auth user table: id -> user row
    logs,                \* ImpersonationLog table: a set of rows with unique id
    settings,            \* django.conf.settings: attribute name -> value
    MAX_FILTER_SIZE,     \* the module global bound when admin.py is imported
    settings_at_import,  \* history: django.conf.settings as it was at import
    result               \* the last call of this component and what it returned

vars == <<users, logs, settings, MAX_FILTER_SIZE, settings_at_import, result>>

\* ------------------------------------------------------------ Python data
\* self.value() is None or a str taken from the query string.
PyNone == [none |-> TRUE]
PyStr(s) == [none |-> FALSE, str |-> s]

\* The SQL NULL of a nullable DateTimeField.
NULL == "NULL"

UserIds == 1..MaxUsers

Range(f) == {f[k] : k \in DOMAIN f}

\* All orderings of a finite set, as sequences without repetition.
Orderings(S) ==
    {f \in [1..Cardinality(S) -> S] : \A a, b \in 1..Cardinality(S) : f[a] = f[b] => a = b}

\* Collation order of the first names used in the user table.
NameOrder == <<"", "Amy", "Zed">>
NameRank(s) == CHOOSE k \in 1..Len(NameOrder) : NameOrder[k] = s
NameLess(a, b) == NameRank(a) < NameRank(b)

\* The (first name, last name) pairs a user row may carry.
Names == <<[first_name |-> "Zed", last_name |-> "Young"],
           [first_name |-> "",    last_name |-> ""],
           [first_name |-> "Amy", last_name |-> "Smith"]>>
Usernames == <<"alice", "bob", "carol", "dave", "erin">>

\* The user table with the name pairs rotated by k.
UserTable(k) ==
    [i \in UserIds |->
        [id         |-> i,
         username   |-> Usernames[i],
         first_name |-> Names[((i + k) % Len(Names)) + 1].first_name,
         last_name  |-> Names[((i + k) % Len(Names)) + 1].last_name]]

\* user.get_full_name(): "first last" with surrounding blanks stripped.
get_full_name(user) ==
    IF user.first_name = "" /\ user.last_name = "" THEN ""
    ELSE IF user.first_name = "" THEN user.last_name
    ELSE IF user.last_name = "" THEN user.first_name
    ELSE user.first_name \o " " \o user.last_name

\* An ImpersonationLog row. The session key and the start timestamp are set by
\* the middleware when the row is created and are never read by the filters.
LogRow(id, impersonator_id, impersonating_id, ended) ==
    [id                 |-> id,
     impersonator_id    |-> impersonator_id,
     impersonating_id   |-> impersonating_id,
     session_key        |-> "sk",
     session_started_at |-> "t0",
     session_ended_at   |-> ended]

\* obj.impersonator and obj.impersonating: the related user rows.
impersonator(obj) == users[obj.impersonator_id]
impersonating(obj) == users[obj.impersonating_id]

\* getattr(obj, name, default)
getattr(obj, name, default) == IF name \in DOMAIN obj THEN obj[name] ELSE default

NoSettings == [n \in {} |-> 0]
SettingsValues ==
    {NoSettings} \cup {[IMPERSONATE_MAX_FILTER_SIZE |-> n] : n \in (MaxUsers - 1)..MaxUsers}

\* MAX_FILTER_SIZE = getattr(settings, 'IMPERSONATE_MAX_FILTER_SIZE', 100)
ModuleImport(s) == getattr(s, "IMPERSONATE_MAX_FILTER_SIZE", DEFAULT_MAX_FILTER_SIZE)

Idle == [op |-> "idle"]

Init ==
    /\ \E k \in 0..(Len(Names) - 1) : users = UserTable(k)
    /\ logs = {}
    /\ settings \in SettingsValues
    /\ MAX_FILTER_SIZE = ModuleImport(settings)
    /\ settings_at_import = settings
    /\ result = Idle

\* ----------------------------------------------------------- environment
\* Execution is single-threaded and synchronous: the tables and the settings
\* change between calls of this component, never during one.

\* The impersonation middleware opens a session in which user a acts as
\* another user b: a new row, no end timestamp.
CreateLog ==
    /\ result = Idle
    /\ Cardinality(logs) < MaxLogs
    /\ \E a \in UserIds : \E b \in UserIds \ {a} :
          logs' = logs \cup {LogRow(Cardinality(logs) + 1, a, b, NULL)}
    /\ UNCHANGED <<users, settings, MAX_FILTER_SIZE, settings_at_import, result>>

\* The session_end signal receiver stamps the end of an open session.
EndSession ==
    /\ result = Idle
    /\ \E q \in logs :
          /\ q.session_ended_at = NULL
          /\ logs' = (logs \ {q}) \cup {[q EXCEPT !.session_ended_at = "t1"]}
    /\ UNCHANGED <<users, settings, MAX_FILTER_SIZE, settings_at_import, result>>

\* The process-wide setting is given another value (or removed) after import.
ChangeSetting ==
    /\ result = Idle
    /\ \E s \in SettingsValues : s # settings /\ settings' = s
    /\ UNCHANGED <<users, logs, MAX_FILTER_SIZE, settings_at_import, result>>

\* ------------------------------------------------------------- component
\* A plausible slip: the label is always the username.
friendly_name_username(user) == user.username

\* friendly_name(user): proper name if it exists, else username.
friendly_name(user) ==
    IF get_full_name(user) # "" THEN get_full_name(user) ELSE user.username

\* SessionStateFilter.lookups
SessionStateFilter_lookups ==
    <<(<<"incomplete", "Incomplete">>), (<<"complete", "Complete">>)>>

\* A plausible slip: the two isnull flags exchanged.
SessionStateFilter_queryset_swapped(value, queryset) ==
    IF value = PyStr("incomplete")
    THEN {q \in queryset : ~(q.session_ended_at = NULL)}
    ELSE IF value = PyStr("complete")
    THEN {q \in queryset : q.session_ended_at = NULL}
    ELSE queryset

\* A plausible slip: the second test written without its else branch, so that
\* every value but 'incomplete' selects the complete sessions.
SessionStateFilter_queryset_noelse(value, queryset) ==
    IF value = PyStr("incomplete")
    THEN {q \in queryset : q.session_ended_at = NULL}
    ELSE {q \in queryset : ~(q.session_ended_at = NULL)}

\* SessionStateFilter.queryset, for self.value() = value
SessionStateFilter_queryset(value, queryset) ==
    IF value = PyStr("incomplete")
    THEN {q \in queryset : q.session_ended_at = NULL}
    ELSE IF value = PyStr("complete")
    THEN {q \in queryset : ~(q.session_ended_at = NULL)}
    ELSE queryset

\* Decimal digits, and int(s) of a non-empty string of digits.
Digits == <<"0", "1", "2", "3", "4", "5", "6", "7", "8", "9">>
DigitValue(c) == (CHOOSE k \in 1..Len(Digits) : Digits[k] = c) - 1
RECURSIVE int(_)
int(s) ==
    IF Len(s) = 1 THEN DigitValue(s[1])
    ELSE 10 * int(SubSeq(s, 1, Len(s) - 1)) + DigitValue(s[Len(s)])

\* A plausible slip: the lookup names the other foreign key.
filter_impersonating_id(queryset, value) ==
    {q \in queryset : q.impersonating_id = int(value.str)}

\* queryset.filter(impersonator_id=value): the value is prepared with int().
filter_impersonator_id(queryset, value) ==
    {q \in queryset : q.impersonator_id = int(value.str)}

\* ImpersonatorFilter.queryset, for self.value() = value
ImpersonatorFilter_queryset(value, queryset) ==
    IF value \in {PyNone, PyStr(<<>>)}
    THEN queryset
    ELSE filter_impersonator_id(queryset, value)

\* model_admin.get_queryset(request): the admin shows every row.
get_queryset == logs

\* .order_by('impersonator__first_name'): every ordering of the rows that is
\* non-decreasing in the impersonator's first name (ties in any order).
order_by_first_name(queryset) ==
    {s \in Orderings(queryset) :
        \A a, b \in DOMAIN s :
            a < b => ~NameLess(impersonator(s[b]).first_name,
                               impersonator(s[a]).first_name)}

\* Model.__hash__ is hash(self.pk), and the hash of a small int is the int.
hash(user) == user.id

\* The number of slots of a set of fewer than five elements.
PySet_MINSIZE == 8

\* A set of fewer than five small ints is walked slot by slot, slot = hash
\* modulo the table size: in ascending order of the primary keys.
HashOrder(S) ==
    CHOOSE s \in Orderings(S) :
        \A a, b \in DOMAIN s :
            a < b => hash(s[a]) % PySet_MINSIZE < hash(s[b]) % PySet_MINSIZE

\* An insertion-ordered set walks its elements as first inserted.
RECURSIVE InsertionOrder(_)
InsertionOrder(list) ==
    IF list = <<>> THEN <<>>
    ELSE LET init == InsertionOrder(SubSeq(list, 1, Len(list) - 1))
             last == list[Len(list)]
         IN  IF last \in Range(init) THEN init ELSE Append(init, last)

\* set(list), then `for i in impersonators`: the language leaves the order of
\* iteration to the implementation. CPython walks the hash table, an
\* insertion-ordered implementation (PyPy) keeps the order of the list.
set_iteration(list) == {HashOrder(Range(list)), InsertionOrder(list)}

\* logger.debug(msg, *args): the record handed to the logging sink.
LogDebug(msg, args) == [levelname |-> "DEBUG", msg |-> msg, args |-> args]

\* The format string of lines 76-77, split at its conversion specifiers.
HidingMessage ==
    <<"Hiding admin list filter as number of impersonators exceeds MAX_FILTER_SIZE [",
      "%s", "]">>

\* record.getMessage(), msg % args, as the sink computes it: every specifier
\* takes one argument, and a count that differs raises TypeError.
getMessage(record) ==
    LET specifiers == {k \in DOMAIN record.msg : record.msg[k] = "%s"}
        nth(k) == Cardinality({j \in specifiers : j <= k})
    IN  IF Cardinality(specifiers) # Len(record.args)
        THEN <<"TypeError">>
        ELSE [k \in DOMAIN record.msg |->
                 IF k \in specifiers THEN record.args[nth(k)] ELSE record.msg[k]]

\* A plausible slip: the size test written >=.
exceeds_MAX_FILTER_SIZE_ge(n) == n >= MAX_FILTER_SIZE

\* A plausible change: the setting looked up anew on every call.
exceeds_MAX_FILTER_SIZE_at_call(n) == n > ModuleImport(settings)

\* len(impersonators) > MAX_FILTER_SIZE
exceeds_MAX_FILTER_SIZE(n) == n > MAX_FILTER_SIZE

\* A plausible slip: the list cut at the cap instead of dropped.
ImpersonatorFilter_lookups_truncated(order) ==
    LET n == IF exceeds_MAX_FILTER_SIZE(Len(order)) THEN MAX_FILTER_SIZE ELSE Len(order)
    IN  [options |-> [k \in 1..n |-> <<order[k].id, friendly_name(order[k])>>],
         emitted |-> IF exceeds_MAX_FILTER_SIZE(Len(order))
                     THEN <<LogDebug(HidingMessage, <<Len(order), MAX_FILTER_SIZE>>)>>
                     ELSE <<>>]

\* ImpersonatorFilter.lookups from line 74 on; order is the sequence in which
\* iterating the set `impersonators` delivers its elements.
ImpersonatorFilter_lookups(order) ==
    IF exceeds_MAX_FILTER_SIZE(Len(order))
    THEN [options |-> <<>>,
          emitted |-> <<LogDebug(HidingMessage, <<Len(order), MAX_FILTER_SIZE>>)>>]
    ELSE [options |-> [k \in 1..Len(order) |->
                          <<order[k].id, friendly_name(order[k])>>],
          emitted |-> <<>>]

\* ImpersonationLogAdmin.impersonator_ and impersonating_
impersonator_(obj) == friendly_name(impersonator(obj))
impersonating_(obj) == friendly_name(impersonating(obj))

\* ----------------------------------------------------------------- calls
\* The values self.value() may have for the session filter.
SessionValues == {PyNone, PyStr("incomplete"), PyStr("complete"), PyStr("other")}

\* The values self.value() may have for the impersonator filter: absent,
\* empty, or the decimal form of an id (0, an unused id and a zero-padded id
\* included).
ImpersonatorValues ==
    {PyNone, PyStr(<<>>), PyStr(<<"0", "1">>)}
        \cup {PyStr(<<Digits[n + 1]>>) : n \in 0..(MaxUsers + 1)}

Frame == UNCHANGED <<users, logs, settings, MAX_FILTER_SIZE, settings_at_import>>

\* The querysets the change list hands to the impersonator filter: list_filter
\* puts SessionStateFilter first, so it is that filter's output.
FilteredQuerysets == {SessionStateFilter_queryset(v, get_queryset) : v \in SessionValues}

Call_friendly_name(user) ==
    /\ result = Idle
    /\ result' = [op |-> "friendly_name", user |-> user,
                  returned |-> friendly_name(user)]
    /\ Frame

Call_SessionStateFilter_lookups ==
    /\ result = Idle
    /\ result' = [op |-> "SessionStateFilter.lookups",
                  returned |-> SessionStateFilter_lookups]
    /\ Frame

Call_SessionStateFilter_queryset(value, queryset) ==
    /\ result = Idle
    /\ result' = [op |-> "SessionStateFilter.queryset",
                  value |-> value, queryset |-> queryset,
                  returned |-> SessionStateFilter_queryset(value, queryset)]
    /\ Frame

Call_ImpersonatorFilter_lookups ==
    /\ result = Idle
    /\ \E qs \in order_by_first_name(get_queryset) :
          LET list == [k \in DOMAIN qs |-> impersonator(qs[k])]
          IN  \E order \in set_iteration(list) :
                 LET out == ImpersonatorFilter_lookups(order)
                 IN  result' = [op |-> "ImpersonatorFilter.lookups",
                                queryset |-> Range(qs),
                                returned |-> out.options,
                                emitted |-> out.emitted]
    /\ Frame

\* A plausible slip: the rows that do not match are deleted from the table.
Call_ImpersonatorFilter_queryset_deleting(value, queryset) ==
    /\ result = Idle
    /\ result' = [op |-> "ImpersonatorFilter.queryset",
                  value |-> value, queryset |-> queryset,
                  returned |-> ImpersonatorFilter_queryset(value, queryset)]
    /\ logs' = logs \ (queryset \ ImpersonatorFilter_queryset(value, queryset))
    /\ UNCHANGED <<users, settings, MAX_FILTER_SIZE, settings_at_import>>

Call_ImpersonatorFilter_queryset(value, queryset) ==
    /\ result = Idle
    /\ result' = [op |-> "ImpersonatorFilter.queryset",
                  value |-> value, queryset |-> queryset,
                  returned |-> ImpersonatorFilter_queryset(value, queryset)]
    /\ Frame

Call_impersonator_(obj) ==
    /\ result = Idle
    /\ result' = [op |-> "impersonator_", obj |-> obj,
                  returned |-> impersonator_(obj)]
    /\ Frame

Call_impersonating_(obj) ==
    /\ result = Idle
    /\ result' = [op |-> "impersonating_", obj |-> obj,
                  returned |-> impersonating_(obj)]
    /\ Frame

\* The value goes back to the admin site, which renders it.
Return ==
    /\ result # Idle
    /\ result' = Idle
    /\ Frame

Next ==
    \/ CreateLog
    \/ EndSession
    \/ ChangeSetting
    \/ \E user \in Range(users) : Call_friendly_name(user)
    \/ Call_SessionStateFilter_lookups
    \/ \E v \in SessionValues :
          Call_SessionStateFilter_queryset(v, get_queryset)
    \/ Call_ImpersonatorFilter_lookups
    \/ \E v \in ImpersonatorValues, qs \in FilteredQuerysets :
          Call_ImpersonatorFilter_queryset(v, qs)
    \/ \E obj \in logs : Call_impersonator_(obj)
    \/ \E obj \in logs : Call_impersonating_(obj)
    \/ Return

Spec == Init /\ [][Next]_vars

\* ------------------------------------------------------------ properties
\* Helpers of the statements below.
Incomplete(queryset) == {q \in queryset : q.session_ended_at = NULL}
Complete(queryset) == {q \in queryset : q.session_ended_at # NULL}
ImpersonatorIds(queryset) == {q.impersonator_id : q \in queryset}
IsCall(op) == result # Idle /\ result.op = op
Suppressed == result.emitted # <<>>

\* The decimal numeral of a natural number, and a numeral without its
\* leading zeros.
RECURSIVE Decimal(_)
Decimal(n) ==
    IF n < 10 THEN <<Digits[n + 1]>>
    ELSE Decimal(n \div 10) \o <<Digits[(n % 10) + 1]>>
RECURSIVE StripZeros(_)
StripZeros(s) ==
    IF Len(s) > 1 /\ s[1] = "0" THEN StripZeros(Tail(s)) ELSE s

\* C1: SessionStateFilter.queryset with 'incomplete' returns exactly the rows
\* of its input whose session_ended_at is null, with 'complete' exactly the
\* rows whose session_ended_at is present; over every collection of rows the
\* two answers are disjoint and together give the collection back.
C1_SessionStatePartition ==
    /\ (IsCall("SessionStateFilter.queryset") /\ result.value = PyStr("incomplete"))
          => result.returned = Incomplete(result.queryset)
    /\ (IsCall("SessionStateFilter.queryset") /\ result.value = PyStr("complete"))
          => result.returned = Complete(result.queryset)
    /\ \A qs \in SUBSET logs :
          LET inc == SessionStateFilter_queryset(PyStr("incomplete"), qs)
              com == SessionStateFilter_queryset(PyStr("complete"), qs)
          IN  inc \cap com = {} /\ inc \cup com = qs

\* C1 witness: 'incomplete' was applied to a collection holding an open and a
\* closed session, and kept some rows and dropped others.
C1_Witness ==
    /\ IsCall("SessionStateFilter.queryset")
    /\ result.value = PyStr("incomplete")
    /\ result.returned # {}
    /\ result.returned # result.queryset

\* C2: SessionStateFilter.queryset with no selection (self.value() is None)
\* returns its input collection unchanged.
C2_SessionStateNoSelection ==
    (IsCall("SessionStateFilter.queryset") /\ result.value = PyNone)
        => result.returned = result.queryset

\* C2 witness: the filter ran without a selection over a collection that
\* holds both an open and a closed session.
C2_Witness ==
    /\ IsCall("SessionStateFilter.queryset")
    /\ result.value = PyNone
    /\ Incomplete(result.queryset) # {}
    /\ Complete(result.queryset) # {}

C4_LookupsWithinCap ==
    (IsCall("ImpersonatorFilter.lookups")
        /\ Cardinality(ImpersonatorIds(result.queryset)) <= MAX_FILTER_SIZE)
    => /\ Len(result.returned) = Cardinality(ImpersonatorIds(result.queryset))
       /\ \A a, b \in DOMAIN result.returned :
             result.returned[a][1] = result.returned[b][1] => a = b
       /\ \A i \in ImpersonatorIds(result.queryset) :
             \E k \in DOMAIN result.returned :
                result.returned[k] = <<i, friendly_name(users[i])>>

\* C4 witness: lookups ran with exactly as many distinct impersonators as the
\* cap allows, and there is at least one.
C4_Witness ==
    /\ IsCall("ImpersonatorFilter.lookups")
    /\ Cardinality(ImpersonatorIds(result.queryset)) = MAX_FILTER_SIZE
    /\ result.returned # <<>>

\* C5: when the number of distinct impersonators is greater than the cap,
\* ImpersonatorFilter.lookups yields no option at all.
C5_LookupsOverCap ==
    (IsCall("ImpersonatorFilter.lookups")
        /\ Cardinality(ImpersonatorIds(result.queryset)) > MAX_FILTER_SIZE)
    => result.returned = <<>>

\* C5 witness: lookups ran with more distinct impersonators than the cap.
C5_Witness ==
    /\ IsCall("ImpersonatorFilter.lookups")
    /\ Cardinality(ImpersonatorIds(result.queryset)) > MAX_FILTER_SIZE

\* The friendly-name rule: the full name when it is not empty, else the
\* username.
Label(user) ==
    IF get_full_name(user) = "" THEN user.username ELSE get_full_name(user)

\* C6: friendly_name returns the full name when it is a non-empty string and
\* the username otherwise; impersonator_ and impersonating_ return that label
\* of the row's impersonator and of the row's impersonated user.
C6_FriendlyName ==
    /\ IsCall("friendly_name") => result.returned = Label(result.user)
    /\ IsCall("impersonator_")
          => result.returned = Label(users[result.obj.impersonator_id])
    /\ IsCall("impersonating_")
          => result.returned = Label(users[result.obj.impersonating_id])

\* C6 witness: impersonating_ ran on a row whose impersonated user has no
\* full name and whose impersonator has one.
C6_Witness ==
    /\ IsCall("impersonating_")
    /\ get_full_name(users[result.obj.impersonating_id]) = ""
    /\ get_full_name(users[result.obj.impersonator_id]) # ""
    /\ result.returned = users[result.obj.impersonating_id].username

\* C7: a call of this component leaves the log table and every attribute of
\* every row as they were (and the user table too).
C7_ReadOnly ==
    [][(result = Idle /\ result' # Idle) => (logs' = logs /\ users' = users)]_vars

\* C7 witness: a filter call has narrowed the admin queryset while the table
\* still holds the rows it dropped.
C7_Witness ==
    /\ IsCall("ImpersonatorFilter.queryset")
    /\ result.queryset = logs
    /\ result.returned # result.queryset
    /\ Cardinality(logs) = MaxLogs

\* C8, as claimed: every call of ImpersonatorFilter.lookups compares the
\* number of distinct impersonators with the value the setting has at the
\* moment of the call (100 when it is absent).
C8_CapReadAtCall ==
    IsCall("ImpersonatorFilter.lookups") =>
        (Suppressed <=>
            Cardinality(ImpersonatorIds(result.queryset)) >
                getattr(settings, "IMPERSONATE_MAX_FILTER_SIZE", 100))

\* C8, amended: every call of ImpersonatorFilter.lookups compares the number
\* of distinct impersonators with the value the setting had when the module
\* was imported (100 when it was absent then).
C8_CapReadAtImport ==
    IsCall("ImpersonatorFilter.lookups") =>
        (Suppressed <=>
            Cardinality(ImpersonatorIds(result.queryset)) >
                getattr(settings_at_import, "IMPERSONATE_MAX_FILTER_SIZE", 100))

\* C8 witness: lookups ran after the setting was changed to a value that
\* would have decided the other way.
C8_Witness ==
    /\ IsCall("ImpersonatorFilter.lookups")
    /\ settings # settings_at_import
    /\ (Cardinality(ImpersonatorIds(result.queryset)) >
            getattr(settings, "IMPERSONATE_MAX_FILTER_SIZE", 100))
       # (Cardinality(ImpersonatorIds(result.queryset)) >
            getattr(settings_at_import, "IMPERSONATE_MAX_FILTER_SIZE", 100))

\* C9: the options ImpersonatorFilter.lookups yields are in first-name order:
\* of two options, the one whose impersonator has the smaller first name
\* comes first.
C9_LookupsByFirstName ==
    IsCall("ImpersonatorFilter.lookups") =>
        \A a, b \in DOMAIN result.returned :
            NameLess(users[result.returned[a][1]].first_name,
                     users[result.returned[b][1]].first_name) => a < b

\* C10: when ImpersonatorFilter.lookups suppresses the option list it hands
\* the logging sink one record of level DEBUG whose message can be formed
\* from its format string and arguments, and when it does not suppress the
\* list it hands the sink nothing.
C10_DebugMessage ==
    IsCall("ImpersonatorFilter.lookups") =>
        IF Cardinality(ImpersonatorIds(result.queryset)) > MAX_FILTER_SIZE
        THEN /\ Len(result.emitted) = 1
             /\ result.emitted[1].levelname = "DEBUG"
             /\ getMessage(result.emitted[1]) # <<"TypeError">>
        ELSE result.emitted = <<>>

====
